---- MODULE Spec2Model ----
(***************************************************************************)
(* Model of the Confluence MCP server (src/src/index.ts).                  *)
(*                                                                         *)
(* The server registers a list-tools handler and a call-tool handler and   *)
(* connects them to a stdio transport.  Every call-tool request runs the   *)
(* async handler: argument coercion and validation happen synchronously,   *)
(* then the handler awaits one axios GET (execute_cql_search,              *)
(* get_page_content) or a GET followed by a PUT (update_page_content).     *)
(*                                                                         *)
(* JavaScript values are tagged tuples:                                    *)
(*   <<"undefined">>, <<"NaN">>, <<"string", s>>, <<"number", n>>,         *)
(*   <<"object", <<  <<key, value>>, ... >> >>  (properties in order).     *)
(* Strings of the model contain no character JSON.stringify would escape.  *)
(* The Authorization header (getAuthHeaders) is the same on every call and *)
(* is left out of the recorded HTTP calls.                                 *)
(*                                                                         *)
(* Nothing in the source orders the handlers of different requests: the    *)
(* SDK's transport invokes the registered async handler for each request   *)
(* it reads.  A request may therefore arrive while earlier ones still      *)
(* await their HTTP calls; runs in which each request completes before the *)
(* next arrives are among the behaviours.                                  *)
(***************************************************************************)
EXTENDS Integers, Sequences, FiniteSets, TLC

VARIABLES
    mainPc,     \* position of main(): "start", "connected" or "exited"
    requests    \* requests received, in order of arrival, each with the
                \* position of its handler, the HTTP calls it has made, the
                \* responses they settled with and what the handler produced

vars == <<mainPc, requests>>

----------------------------------------------------------------------------
(* Bounds *)

MaxRequests == 2

----------------------------------------------------------------------------
(* JavaScript values *)

Undefined == <<"undefined">>
NaN == <<"NaN">>
Str(s) == <<"string", s>>
Num(n) == <<"number", n>>
Obj(props) == <<"object", props>>

IsObj(v) == v[1] = "object"

\* obj[key] for a value that is not null/undefined: the property's value,
\* undefined when the value has no such property.
RECURSIVE Lookup(_, _)
Lookup(props, key) ==
    IF props = <<>> THEN Undefined
    ELSE IF Head(props)[1] = key THEN Head(props)[2]
    ELSE Lookup(Tail(props), key)

Get(v, key) == IF IsObj(v) THEN Lookup(v[2], key) ELSE Undefined

\* ToBoolean
Truthy(v) ==
    CASE v[1] = "undefined" -> FALSE
      [] v[1] = "NaN"       -> FALSE
      [] v[1] = "string"    -> v[2] # ""
      [] v[1] = "number"    -> v[2] # 0
      [] v[1] = "object"    -> TRUE

\* String(v), also the conversion of `${v}`
String(v) ==
    CASE v[1] = "undefined" -> "undefined"
      [] v[1] = "NaN"       -> "NaN"
      [] v[1] = "string"    -> v[2]
      [] v[1] = "number"    -> ToString(v[2])
      [] v[1] = "object"    -> "[object Object]"

NumeralBound == 20

\* Number(v); a string converts when it is the numeral of a small natural
Number(v) ==
    CASE v[1] = "undefined" -> NaN
      [] v[1] = "NaN"       -> NaN
      [] v[1] = "number"    -> v
      [] v[1] = "object"    -> NaN
      [] v[1] = "string"    ->
            IF v[2] = "" THEN Num(0)
            ELSE IF \E n \in 0..NumeralBound : ToString(n) = v[2]
                 THEN Num(CHOOSE n \in 0..NumeralBound : ToString(n) = v[2])
                 ELSE NaN

\* a ?? b
Nullish(a, b) == IF a = Undefined THEN b ELSE a

\* a || b
OrElse(a, b) == IF Truthy(a) THEN a ELSE b

\* v + 1
PlusOne(v) ==
    CASE v[1] = "number" -> Num(v[2] + 1)
      [] v[1] = "string" -> Str(v[2] \o "1")
      [] v[1] = "object" -> Str("[object Object]1")
      [] OTHER           -> NaN

----------------------------------------------------------------------------
(* JSON.stringify(value, null, 2) *)

RECURSIVE Spaces(_)
Spaces(n) == IF n = 0 THEN "" ELSE " " \o Spaces(n - 1)

\* properties whose value is undefined are skipped by JSON.stringify
RECURSIVE Defined(_)
Defined(props) ==
    IF props = <<>> THEN <<>>
    ELSE IF Head(props)[2] = Undefined THEN Defined(Tail(props))
    ELSE <<Head(props)>> \o Defined(Tail(props))

RECURSIVE Serialize(_, _)
RECURSIVE SerializeProps(_, _)
SerializeProps(props, indent) ==
    IF props = <<>> THEN ""
    ELSE Spaces(indent) \o "\"" \o Head(props)[1] \o "\": "
         \o Serialize(Head(props)[2], indent)
         \o (IF Tail(props) = <<>> THEN "\n"
             ELSE ",\n" \o SerializeProps(Tail(props), indent))

Serialize(v, indent) ==
    CASE v[1] = "string" -> "\"" \o v[2] \o "\""
      [] v[1] = "number" -> ToString(v[2])
      [] v[1] = "NaN"    -> "null"
      [] v[1] = "object" ->
            IF Defined(v[2]) = <<>> THEN "{}"
            ELSE "{\n" \o SerializeProps(Defined(v[2]), indent + 2)
                 \o Spaces(indent) \o "}"
      [] OTHER           -> "undefined"

JSONStringify(v) == Serialize(v, 0)

----------------------------------------------------------------------------
(* Configuration, inputs and remote responses *)

CONFLUENCE_URL == "https://example.atlassian.net"

DefaultLimit == 10

ToolNames == {"execute_cql_search", "get_page_content", "update_page_content"}

\* names a client may send: the registered ones and one that is not
RequestNames == ToolNames \cup {"delete_page"}

\* a string argument is absent, empty or a proper string
CqlArgs == {Undefined, Str(""), Str("type=page")}
LimitArgs == {Undefined, Num(0), Num(5)}
PageIdArgs == {Undefined, Str(""), Str("123")}
ContentArgs == {Undefined, Str(""), Str("<p>new</p>")}
TitleArgs == {Undefined, Str(""), Str("T2")}

NoArgs ==
    [cql |-> Undefined, limit |-> Undefined, pageId |-> Undefined,
     content |-> Undefined, title |-> Undefined]

ArgsOf(name) ==
    CASE name = "execute_cql_search" ->
            {[NoArgs EXCEPT !.cql = c, !.limit = l] :
                c \in CqlArgs, l \in LimitArgs}
      [] name = "get_page_content" ->
            {[NoArgs EXCEPT !.pageId = p] : p \in PageIdArgs}
      [] name = "update_page_content" ->
            {[NoArgs EXCEPT !.pageId = p, !.content = c] :
                p \in PageIdArgs, c \in ContentArgs}
            \cup {[NoArgs EXCEPT !.pageId = Str("123"),
                                 !.content = Str("<p>new</p>"), !.title = t] :
                     t \in TitleArgs}
      [] OTHER -> {NoArgs}

\* what axios settles with: a 2xx response, a non-2xx response (the error
\* carries error.response) or no response at all (only error.message)
Ok(data) == [kind |-> "ok", data |-> data, message |-> ""]
HttpError(data) ==
    [kind |-> "http_error", data |-> data,
     message |-> "Request failed with status code 404"]
NetworkError == [kind |-> "network_error", data |-> Undefined,
                 message |-> "Network Error"]

NotFoundBody ==
    Obj(<< <<"statusCode", Num(404)>>, <<"message", Str("No content found")>> >>)

SearchBody ==
    Obj(<< <<"size", Num(1)>>, <<"limit", Num(5)>> >>)

PageBody ==
    Obj(<< <<"id", Str("123")>>, <<"type", Str("page")>>,
           <<"title", Str("T")>>,
           <<"space", Obj(<< <<"key", Str("DOC")>> >>)>>,
           <<"version", Obj(<< <<"number", Num(3)>> >>)>> >>)

\* a page returned without its version (nothing validates the remote payload)
PageBodyNoVersion ==
    Obj(<< <<"id", Str("123")>>, <<"type", Str("page")>>,
           <<"title", Str("T")>> >>)

UpdatedBody ==
    Obj(<< <<"id", Str("123")>>, <<"version", Obj(<< <<"number", Num(4)>> >>)>> >>)

SearchResponses == {Ok(SearchBody), HttpError(NotFoundBody), NetworkError}
\* a failed GET may carry a structured body or an empty one
PageResponses ==
    {Ok(PageBody), Ok(PageBodyNoVersion), HttpError(NotFoundBody),
     HttpError(Str("")), NetworkError}
PutResponses == {Ok(UpdatedBody), HttpError(NotFoundBody), NetworkError}

----------------------------------------------------------------------------
(* List-tools handler *)

ListToolsMissingUpdate ==
    << [name |-> "execute_cql_search", required |-> {"cql"}],
       [name |-> "get_page_content", required |-> {"pageId"}] >>

ListTools ==
    << [name |-> "execute_cql_search", required |-> {"cql"}],
       [name |-> "get_page_content", required |-> {"pageId"}],
       [name |-> "update_page_content", required |-> {"pageId", "content"}] >>

----------------------------------------------------------------------------
(* Remote client *)

HttpCall(method, url, params, data) ==
    [method |-> method, url |-> url, params |-> params, data |-> data]

\* catch (error): error.response ? error.response.data : error.message
CaughtError(resp) ==
    IF resp.kind = "http_error" THEN resp.data ELSE Str(resp.message)

ErrorValue(e) == Obj(<< <<"error", e>> >>)

executeCQLRequest(cql, limit) ==
    HttpCall("GET", CONFLUENCE_URL \o "/wiki/rest/api/content/search",
             Obj(<< <<"cql", Str(cql)>>, <<"limit", limit>> >>), Undefined)

executeCQL(resp) ==
    IF resp.kind = "ok" THEN resp.data ELSE ErrorValue(CaughtError(resp))

getPageContentRequest(pageId) ==
    HttpCall("GET",
             CONFLUENCE_URL \o "/wiki/rest/api/content/" \o pageId
                 \o "?expand=body.storage,version",
             Undefined, Undefined)

\* variant: a module-level flag set by the first completed request makes
\* later fetches return the whole response object instead of its data
getPageContentStateful(resp) ==
    IF \E k \in DOMAIN requests : requests[k].pc = "done"
    THEN Obj(<< <<"data", resp.data>> >>)
    ELSE IF resp.kind = "ok" THEN resp.data ELSE ErrorValue(CaughtError(resp))

getPageContent(resp) ==
    IF resp.kind = "ok" THEN resp.data ELSE ErrorValue(CaughtError(resp))

TypeErrorMessage == "Cannot read properties of undefined (reading 'number')"

\* variant: the fetched version number is sent back as it is
updatePayloadSameVersion(pageId, content, title, currentPage) ==
    Obj(<< <<"id", Str(pageId)>>,
           <<"type", Get(currentPage, "type")>>,
           <<"title", OrElse(title, Get(currentPage, "title"))>>,
           <<"space", Get(currentPage, "space")>>,
           <<"body", Obj(<< <<"storage",
                Obj(<< <<"value", Str(content)>>,
                       <<"representation", Str("storage")>> >>)>> >>)>>,
           <<"version", Obj(<< <<"number",
                Get(Get(currentPage, "version"), "number")>> >>)>> >>)

updatePayload(pageId, content, title, currentPage) ==
    Obj(<< <<"id", Str(pageId)>>,
           <<"type", Get(currentPage, "type")>>,
           <<"title", OrElse(title, Get(currentPage, "title"))>>,
           <<"space", Get(currentPage, "space")>>,
           <<"body", Obj(<< <<"storage",
                Obj(<< <<"value", Str(content)>>,
                       <<"representation", Str("storage")>> >>)>> >>)>>,
           <<"version", Obj(<< <<"number",
                PlusOne(Get(Get(currentPage, "version"), "number"))>> >>)>> >>)

updatePageContentRequest(pageId, payload) ==
    HttpCall("PUT", CONFLUENCE_URL \o "/wiki/rest/api/content/" \o pageId,
             Undefined, payload)

\* updatePageContent from the settling of its GET to its next await or
\* return: [put |-> TRUE, call |-> the PUT] or [put |-> FALSE, value |-> v]
Returns(v) == [put |-> FALSE, value |-> v, call |-> HttpCall("", "", Undefined, Undefined)]
Puts(call) == [put |-> TRUE, value |-> Undefined, call |-> call]

\* variant: no check of the fetch's error, version read as version?.number
updateAfterGetNoAbort(pageId, content, title, resp) ==
    Puts(updatePageContentRequest(pageId,
            updatePayload(pageId, content, title, getPageContent(resp))))

updateAfterGet(pageId, content, title, resp) ==
    LET currentPage == getPageContent(resp)
    IN  IF Truthy(Get(currentPage, "error"))
        THEN Returns(ErrorValue(Str("Failed to get current page: "
                                    \o String(Get(currentPage, "error")))))
        ELSE IF Get(currentPage, "version") = Undefined
        THEN Returns(ErrorValue(Str(TypeErrorMessage)))
        ELSE Puts(updatePageContentRequest(pageId,
                     updatePayload(pageId, content, title, currentPage)))

updateAfterPut(resp) ==
    IF resp.kind = "ok" THEN resp.data ELSE ErrorValue(CaughtError(resp))

----------------------------------------------------------------------------
(* Call-tool handler *)

NoContent == <<>>

\* { content: [ { type: 'text', text: JSON.stringify(response, null, 2) } ] }
Envelope(response) ==
    << [type |-> "text", text |-> JSONStringify(response)] >>

\* the handler up to its first await: it throws or it has issued one call
Thrown(msg) == [pc |-> "done", outcome |-> "thrown", error |-> msg, calls |-> <<>>]
Awaiting(call) == [pc |-> "awaitGet", outcome |-> "pending", error |-> "", calls |-> <<call>>]
\* the handler returned without awaiting anything
Resolved == [pc |-> "done", outcome |-> "returned", error |-> "", calls |-> <<>>]

\* variant: limit || 10 in place of limit ?? 10
CaseExecuteCqlSearchOrDefault(args) ==
    LET cql == String(args.cql)
        limit == Number(OrElse(args.limit, Num(DefaultLimit)))
    IN  IF cql = "" THEN Thrown("CQL query is required")
        ELSE Awaiting(executeCQLRequest(cql, limit))

CaseExecuteCqlSearch(args) ==
    LET cql == String(args.cql)
        limit == Number(Nullish(args.limit, Num(DefaultLimit)))
    IN  IF cql = "" THEN Thrown("CQL query is required")
        ELSE Awaiting(executeCQLRequest(cql, limit))

CaseGetPageContent(args) ==
    LET pageId == String(args.pageId)
    IN  IF pageId = "" THEN Thrown("Page ID is required")
        ELSE Awaiting(getPageContentRequest(pageId))

\* const title = arguments?.title ? String(arguments?.title) : undefined
TitleOf(args) == IF Truthy(args.title) THEN Str(String(args.title)) ELSE Undefined

CaseUpdatePageContent(args) ==
    LET pageId == String(args.pageId)
        content == String(args.content)
    IN  IF pageId = "" THEN Thrown("Page ID is required")
        ELSE IF content = "" THEN Thrown("Content is required")
        ELSE Awaiting(getPageContentRequest(pageId))

\* variant: no default case, the handler resolves with nothing
DefaultCaseReturns(args) == Resolved

DefaultCase(args) == Thrown("Unknown tool")

CallTool(name, args) ==
    CASE name = "execute_cql_search"  -> CaseExecuteCqlSearch(args)
      [] name = "get_page_content"    -> CaseGetPageContent(args)
      [] name = "update_page_content" -> CaseUpdatePageContent(args)
      [] OTHER                        -> DefaultCase(args)

----------------------------------------------------------------------------------------------------------------------------------------
(* State machine *)

Request(method, name, args, h) ==
    [method |-> method, name |-> name, args |-> args, pc |-> h.pc,
     outcome |-> h.outcome, error |-> h.error, calls |-> h.calls,
     resps |-> <<>>, tools |-> <<>>, content |-> NoContent]

Init ==
    /\ mainPc = "start"
    /\ requests = <<>>

\* main(): await server.connect(transport) resolves
Connect ==
    /\ mainPc = "start"
    /\ mainPc' = "connected"
    /\ UNCHANGED requests

\* main().catch: console.error, process.exit(1)
ConnectFails ==
    /\ mainPc = "start"
    /\ mainPc' = "exited"
    /\ UNCHANGED requests

\* a list-tools request: its handler returns without awaiting anything
ListToolsRequest ==
    /\ mainPc = "connected"
    /\ Len(requests) < MaxRequests
    /\ requests' = Append(requests,
            [Request("tools/list", "", NoArgs, Resolved)
                EXCEPT !.tools = ListTools])
    /\ UNCHANGED mainPc

\* a call-tool request arrives and its handler runs to its first await
CallToolRequest ==
    /\ mainPc = "connected"
    /\ Len(requests) < MaxRequests
    /\ \E name \in RequestNames : \E args \in ArgsOf(name) :
         requests' = Append(requests,
            Request("tools/call", name, args, CallTool(name, args)))
    /\ UNCHANGED mainPc

\* variant: a failed call is issued once more before the handler gives up
ReturnRetrying(r, resp, value) ==
    IF resp.kind # "ok" /\ r.resps = <<>>
    THEN [r EXCEPT !.resps = Append(@, resp),
                   !.calls = Append(@, r.calls[Len(r.calls)])]
    ELSE [r EXCEPT !.pc = "done", !.outcome = "returned",
                   !.resps = Append(@, resp), !.content = Envelope(value)]

Return(r, resp, value) ==
    [r EXCEPT !.pc = "done", !.outcome = "returned",
              !.resps = Append(@, resp), !.content = Envelope(value)]

\* the GET of an execute_cql_search settles and the handler returns
ExecuteCqlSettles ==
    /\ mainPc = "connected"
    /\ \E i \in DOMAIN requests : \E resp \in SearchResponses :
         /\ requests[i].name = "execute_cql_search"
         /\ requests[i].pc = "awaitGet"
         /\ requests' = [requests EXCEPT ![i] = Return(@, resp, executeCQL(resp))]
    /\ UNCHANGED mainPc

\* the GET of a get_page_content settles and the handler returns
GetPageSettles ==
    /\ mainPc = "connected"
    /\ \E i \in DOMAIN requests : \E resp \in PageResponses :
         /\ requests[i].name = "get_page_content"
         /\ requests[i].pc = "awaitGet"
         /\ requests' = [requests EXCEPT ![i] = Return(@, resp, getPageContent(resp))]
    /\ UNCHANGED mainPc

\* the GET of an update_page_content settles: the handler returns the
\* failure or issues the PUT
UpdateGetSettles ==
    /\ mainPc = "connected"
    /\ \E i \in DOMAIN requests : \E resp \in PageResponses :
         /\ requests[i].name = "update_page_content"
         /\ requests[i].pc = "awaitGet"
         /\ LET r == requests[i]
                step == updateAfterGet(String(r.args.pageId),
                            String(r.args.content), TitleOf(r.args), resp)
            IN  requests' = [requests EXCEPT ![i] =
                    IF step.put
                    THEN [r EXCEPT !.pc = "awaitPut",
                                   !.resps = Append(@, resp),
                                   !.calls = Append(@, step.call)]
                    ELSE Return(r, resp, step.value)]
    /\ UNCHANGED mainPc

\* the PUT of an update_page_content settles and the handler returns
UpdatePutSettles ==
    /\ mainPc = "connected"
    /\ \E i \in DOMAIN requests : \E resp \in PutResponses :
         /\ requests[i].name = "update_page_content"
         /\ requests[i].pc = "awaitPut"
         /\ requests' = [requests EXCEPT ![i] = Return(@, resp, updateAfterPut(resp))]
    /\ UNCHANGED mainPc

Next ==
    \/ Connect
    \/ ConnectFails
    \/ ListToolsRequest
    \/ CallToolRequest
    \/ ExecuteCqlSettles
    \/ GetPageSettles
    \/ UpdateGetSettles
    \/ UpdatePutSettles

Spec == Init /\ [][Next]_vars

----------------------------------------------------------------------------
(* Properties *)

IsCall(r) == r.method = "tools/call"
Failed(resp) == resp.kind # "ok"

\* the descriptors the list-tools handler returns for a tool name
Descriptors(name) == {k \in DOMAIN ListTools : ListTools[k].name = name}

\* C1: a call-tool request of a registered tool in which a required
\* argument is missing makes the handler throw, and no HTTP call is made
\* for that request.
C1_MissingArgumentRejected ==
    \A i \in DOMAIN requests :
        LET r == requests[i]
        IN  (IsCall(r) /\ \E k \in Descriptors(r.name) :
                            \E a \in ListTools[k].required : r.args[a] = Undefined)
            => (r.outcome = "thrown" /\ r.calls = <<>>)

\* a request of a registered tool with every required argument a
\* non-empty value
Validated(r) ==
    /\ IsCall(r)
    /\ Descriptors(r.name) # {}
    /\ \A k \in Descriptors(r.name) :
         \A a \in ListTools[k].required : Truthy(r.args[a])

\* C2: when a remote call of a validated request fails, the handler does
\* not throw and returns the envelope of {error: E}, E being the remote
\* error body when a response was received and the exception message
\* otherwise.
C2_RemoteFailureReturnedAsError ==
    \A i \in DOMAIN requests :
        LET r == requests[i]
        IN  \A k \in DOMAIN r.resps :
                (Validated(r) /\ Failed(r.resps[k]))
                => /\ r.outcome = "returned"
                   /\ r.content = Envelope(ErrorValue(CaughtError(r.resps[k])))

\* C3: a call-tool request whose name is not registered makes the handler
\* throw 'Unknown tool' with no envelope and no HTTP call, the process
\* stays up, and every later request starts as its name and arguments
\* alone determine.
C3_UnknownToolFailsRequestOnly ==
    \A i \in DOMAIN requests :
        LET r == requests[i]
        IN  (IsCall(r) /\ r.name \notin ToolNames)
            => /\ r.pc = "done"
               /\ r.outcome = "thrown"
               /\ r.error = "Unknown tool"
               /\ r.content = NoContent
               /\ r.calls = <<>>
               /\ mainPc = "connected"
               /\ \A j \in DOMAIN requests :
                    (j > i /\ IsCall(requests[j]))
                    => LET h == CallTool(requests[j].name, requests[j].args)
                       IN  /\ (h.outcome = "thrown") = (requests[j].outcome = "thrown")
                           /\ h.error = requests[j].error
                           /\ h.calls = SubSeq(requests[j].calls, 1, Len(h.calls))

C3_Witness ==
    \E i, j \in DOMAIN requests :
        /\ i < j
        /\ IsCall(requests[i]) /\ requests[i].name \notin ToolNames
        /\ requests[i].outcome = "thrown"
        /\ IsCall(requests[j]) /\ requests[j].outcome = "returned"
        /\ requests[j].calls # <<>>

IsUpdate(r) == IsCall(r) /\ r.name = "update_page_content"

\* the version number of a fetched page, undefined when it has none
FetchedVersion(resp) == Get(Get(resp.data, "version"), "number")

\* an update whose GET succeeded with a numeric version and whose PUT was sent
PutSent(r) ==
    /\ IsUpdate(r)
    /\ Len(r.resps) >= 1 /\ r.resps[1].kind = "ok"
    /\ FetchedVersion(r.resps[1])[1] = "number"
    /\ Len(r.calls) = 2 /\ r.calls[2].method = "PUT"

\* version.number = n + 1 and type and space carried over from the fetch
CarriedOver(r) ==
    LET page == r.resps[1].data
        body == r.calls[2].data
    IN  /\ Get(Get(body, "version"), "number") = Num(FetchedVersion(r.resps[1])[2] + 1)
        /\ Get(body, "type") = Get(page, "type")
        /\ Get(body, "space") = Get(page, "space")

StorageValue(body) == Get(Get(Get(body, "body"), "storage"), "value")

\* C4 as stated: the PUT body has version.number = n + 1, body.storage.value
\* equal to the content argument, type and space of the fetched page, and
\* the title argument when one is supplied, the fetched title when omitted.
C4_PutBodyAsStated ==
    \A i \in DOMAIN requests :
        LET r == requests[i]
        IN  PutSent(r)
            => /\ CarriedOver(r)
               /\ StorageValue(r.calls[2].data) = r.args.content
               /\ Get(r.calls[2].data, "title") =
                    (IF r.args.title # Undefined THEN r.args.title
                     ELSE Get(r.resps[1].data, "title"))

\* C4 amended: the PUT body has version.number = n + 1, type and space of
\* the fetched page, body.storage.value equal to the string conversion of
\* the content argument, and the title argument when a non-empty one is
\* supplied, the fetched title when it is omitted or empty.
C4_PutBody ==
    \A i \in DOMAIN requests :
        LET r == requests[i]
        IN  PutSent(r)
            => /\ CarriedOver(r)
               /\ StorageValue(r.calls[2].data) = Str(String(r.args.content))
               /\ Get(r.calls[2].data, "title") =
                    (IF Truthy(r.args.title) THEN r.args.title
                     ELSE Get(r.resps[1].data, "title"))

\* a PUT sent with a title argument, and one sent with the title omitted
C4_Witness ==
    /\ \E i \in DOMAIN requests :
         PutSent(requests[i]) /\ requests[i].args.title = Str("T2")
    /\ \E i \in DOMAIN requests :
         PutSent(requests[i]) /\ requests[i].args.title = Undefined
                              /\ Truthy(requests[i].args.content)

\* C5: when the GET of an update_page_content fails, the handler returns
\* and no PUT is ever issued for that request.
C5_FailedFetchAbortsUpdate ==
    \A i \in DOMAIN requests :
        LET r == requests[i]
        IN  (IsUpdate(r) /\ Len(r.resps) >= 1 /\ Failed(r.resps[1]))
            => /\ r.pc = "done"
               /\ \A k \in DOMAIN r.calls : r.calls[k].method # "PUT"

C5_Witness ==
    \E i \in DOMAIN requests :
        /\ IsUpdate(requests[i]) /\ Len(requests[i].resps) = 1
        /\ requests[i].resps[1] = HttpError(Str(""))
        /\ requests[i].pc = "done"

\* C6: when the GET of an update_page_content fails with error value E,
\* the returned value is what get_page_content returns for that failure,
\* its error field equal to E.
C6_FetchErrorSurfacedDirectly ==
    \A i \in DOMAIN requests :
        LET r == requests[i]
        IN  (IsUpdate(r) /\ Len(r.resps) >= 1 /\ Failed(r.resps[1]))
            => r.content = Envelope(getPageContent(r.resps[1]))

IsSearch(r) == IsCall(r) /\ r.name = "execute_cql_search"

\* C7: an execute_cql_search with a non-empty cql makes one GET to
\* content/search with cql the argument and limit the limit argument, 10
\* when absent; on a 2xx response the envelope has one text item, the
\* pretty-printed serialization of the response body.
C7_SearchRequestAndEnvelope ==
    \A i \in DOMAIN requests :
        LET r == requests[i]
        IN  (IsSearch(r) /\ Truthy(r.args.cql))
            => /\ Len(r.calls) = 1
               /\ r.calls[1].method = "GET"
               /\ r.calls[1].url = CONFLUENCE_URL \o "/wiki/rest/api/content/search"
               /\ Get(r.calls[1].params, "cql") = r.args.cql
               /\ Get(r.calls[1].params, "limit") =
                    (IF r.args.limit # Undefined THEN r.args.limit ELSE Num(10))
               /\ (r.pc = "done" /\ r.resps[1].kind = "ok")
                  => /\ r.outcome = "returned"
                     /\ Len(r.content) = 1
                     /\ r.content[1].type = "text"
                     /\ r.content[1].text = JSONStringify(r.resps[1].data)

\* a search with limit 0 and one with no limit, both answered with 2xx
C7_Witness ==
    /\ \E i \in DOMAIN requests :
         /\ IsSearch(requests[i]) /\ Truthy(requests[i].args.cql)
         /\ requests[i].args.limit = Num(0)
         /\ requests[i].pc = "done" /\ requests[i].resps[1].kind = "ok"
    /\ \E i \in DOMAIN requests :
         /\ IsSearch(requests[i]) /\ Truthy(requests[i].args.cql)
         /\ requests[i].args.limit = Undefined
         /\ requests[i].pc = "done" /\ requests[i].resps[1].kind = "ok"

UnknownTool(r) == r.outcome = "thrown" /\ r.error = "Unknown tool"

\* C8: the names a list-tools response carries are unique, and a call-tool
\* request falls to 'Unknown tool' exactly when its name is not among them.
C8_RegistryMatchesDispatcher ==
    \A i \in DOMAIN requests :
        requests[i].method = "tools/list"
        => LET tools == requests[i].tools
               names == {tools[k].name : k \in DOMAIN tools}
           IN  /\ Cardinality(names) = Len(tools)
               /\ \A j \in DOMAIN requests :
                    IsCall(requests[j])
                    => (requests[j].name \in names <=> ~UnknownTool(requests[j]))

C8_Witness ==
    \E i, j \in DOMAIN requests :
        /\ requests[i].method = "tools/list"
        /\ IsCall(requests[j]) /\ requests[j].name = "update_page_content"
        /\ requests[j].outcome = "returned"

IsGetPage(r) == IsCall(r) /\ r.name = "get_page_content"

Methods(r) == [k \in DOMAIN r.calls |-> r.calls[k].method]

\* C11: nothing is retried.  A request issues at most one GET
\* (execute_cql_search, get_page_content) or at most one GET followed by at
\* most one PUT (update_page_content), the PUT only after the GET has
\* completed successfully; a request that is not dispatched to a tool
\* issues nothing, and after a failed call no further call is issued.
C11_NothingRetried ==
    \A i \in DOMAIN requests :
        LET r == requests[i]
        IN  /\ Len(r.resps) <= Len(r.calls)
            /\ (IsSearch(r) \/ IsGetPage(r)) => Methods(r) \in {<<>>, <<"GET">>}
            /\ IsUpdate(r) => Methods(r) \in {<<>>, <<"GET">>, <<"GET", "PUT">>}
            /\ (IsUpdate(r) /\ Len(r.calls) = 2)
               => (Len(r.resps) >= 1 /\ r.resps[1].kind = "ok")
            /\ ~(IsSearch(r) \/ IsGetPage(r) \/ IsUpdate(r)) => r.calls = <<>>
            /\ \A k \in DOMAIN r.resps :
                 Failed(r.resps[k]) => (k = Len(r.calls) /\ r.pc = "done")

\* a search whose GET failed and an update whose PUT failed, both finished
C11_Witness ==
    /\ \E i \in DOMAIN requests :
         /\ IsSearch(requests[i]) /\ requests[i].pc = "done"
         /\ Len(requests[i].resps) = 1 /\ Failed(requests[i].resps[1])
    /\ \E i \in DOMAIN requests :
         /\ IsUpdate(requests[i]) /\ requests[i].pc = "done"
         /\ Len(requests[i].resps) = 2 /\ Failed(requests[i].resps[2])

====
